---- MODULE Spec2Model ----
(***************************************************************************)
(* The blog REST backend of server/routes/posts.js and                     *)
(* server/routes/categories.js as a state machine over the document store. *)
(* A request is a little process: it arrives, runs its route's middleware, *)
(* and then performs its handler's database operations one at a time; the  *)
(* await in front of each database operation is a point where the          *)
(* operations of other requests may run.                                   *)
(* The GET routes of the posts router, the client's AuthProvider and the  *)
(* client's PostDetail view are three further state machines, each with    *)
(* its own variables and its own specification.                            *)
(***************************************************************************)
EXTENDS Integers, Sequences, FiniteSets, TLC

\* ------------------------------------------------------------------ bounds
\* Requests received over the whole run.
MaxReqs == 4
\* Largest postCount a request body carries.
MaxCount == 2
\* Requests being handled at the same time under Spec.
MaxInFlight == 2
\* login and register calls awaiting their response at the same time.
MaxCalls == 2
\* Fetches the post detail view starts over the whole run.
MaxFetches == 3

\* ---------------------------------------------------------------- universe
Users == {"alice", "bob"}
Role == [alice |-> "admin", bob |-> "user"]
\* A caller that presents no valid token.
Anon == "anon"
Callers == Users \cup {Anon}
Contents == {"x", "y"}
\* ObjectIds are handed out in order and never reused; 0 is a well-formed id
\* that names no document.
Ids == 1..MaxReqs
NoId == 0
\* A field the request body does not carry.
NoInt == -1
NoStr == ""

Comment(content, user) == [content |-> content, user |-> user]
\* The comment arrays a PUT body may carry.
CommentPatches == {<<>>, <<Comment("y", "bob")>>}

\* null, as findById returns it
NullPost == [live |-> FALSE, author |-> NoStr, category |-> NoId, comments |-> <<>>]
NullCategory == [live |-> FALSE, postCount |-> 0]

NoBody ==
    [category |-> NoInt, author |-> NoStr, setComments |-> FALSE, comments |-> <<>>,
     postCount |-> NoInt, content |-> NoStr, name |-> FALSE]

Idle ==
    [op |-> "idle", pc |-> "idle", caller |-> Anon, id |-> NoId, body |-> NoBody,
     post |-> NullPost, category |-> NullCategory, status |-> 0, data |-> <<>>]

Slots == 1..MaxInFlight

VARIABLES
    posts,      \* the Post collection: id -> document (live = FALSE: no such document)
    cats,       \* the Category collection
    nextPost,   \* the id the next created post gets
    nextCat,    \* the id the next created category gets
    reqs,       \* the requests being handled, by slot
    nreq,       \* requests received so far
    snap,       \* history: the store when the latest request arrived with no other in flight
    trail,      \* history: how far the latest requests are into create post, delete it, delete its category
    library,    \* GET routes: the Post collection with the fields a search reads
    getReq,     \* GET routes: the GET request being handled and its response
    session,    \* AuthProvider: the reducer state
    calls,      \* AuthProvider: the login and register calls awaiting their response
    persisted,  \* AuthProvider: the user authService keeps between page loads
    mounted,    \* AuthProvider: the initial-load effect has run
    loggedOut,  \* history: logout() has run and no call started after it has succeeded
    detail,     \* PostDetail: route id, the hook's loading and error, the post
    fetches     \* PostDetail: the fetches started so far, oldest first

serverVars == <<posts, cats, nextPost, nextCat, reqs, nreq, snap, trail>>
searchVars == <<library, getReq>>
authVars == <<session, calls, persisted, mounted, loggedOut>>
detailVars == <<detail, fetches>>
vars == <<serverVars, searchVars, authVars, detailVars>>
\* what the handlers of the write routes leave alone
elsewhere == <<searchVars, authVars, detailVars>>
store == <<posts, cats, nextPost, nextCat>>

Store == [posts |-> posts, cats |-> cats, nextPost |-> nextPost, nextCat |-> nextCat]
EmptyStore ==
    [posts |-> [p \in Ids |-> NullPost], cats |-> [c \in Ids |-> NullCategory],
     nextPost |-> 1, nextCat |-> 1]
\* snap when the latest request arrived among others.
NoSnap == [EmptyStore EXCEPT !.nextPost = 0]
\* trail when the latest requests are no such round trip.
NoTrail == [stage |-> 0, base |-> EmptyStore, cat |-> NoId]

\* ObjectIds of the documents a GET request may name
ObjectIds == {"id1", "id2"}
\* null, as findById returns it
NullDoc == [live |-> FALSE, title |-> <<>>, content |-> <<>>, tags |-> <<>>]
NoGet == [pc |-> "idle", path |-> <<>>, q |-> <<>>, route |-> 0, status |-> 0, data |-> {}]
SearchIdle ==
    /\ library = [d \in ObjectIds |-> NullDoc]
    /\ getReq = NoGet

\* user: null
NoUser == "null"
\* error: null
NoError == "null"
\* useReducer(authReducer, { loading: false, isAuthenticated: false, user: null, error: null })
InitialSession ==
    [loading |-> FALSE, isAuthenticated |-> FALSE, user |-> NoUser, error |-> NoError]
CallSlots == 1..MaxCalls
NoCall == [kind |-> "none", user |-> NoUser, stale |-> FALSE]
AuthIdle ==
    /\ session = InitialSession
    /\ calls = [c \in CallSlots |-> NoCall]
    /\ persisted = NoUser
    /\ mounted = FALSE
    /\ loggedOut = FALSE

\* useParams() before the view is mounted
NoRoute == "none"
\* useState(null) for the post
NoPost == "null"
\* useState(false), useState(null) of useApi; useState(null) of PostDetail
Unmounted == [id |-> NoRoute, loading |-> FALSE, error |-> NoError, post |-> NoPost]
DetailIdle ==
    /\ detail = Unmounted
    /\ fetches = <<>>

ServerIdle ==
    /\ posts = [p \in Ids |-> NullPost]
    /\ cats = [c \in Ids |-> NullCategory]
    /\ nextPost = 1
    /\ nextCat = 1
    /\ reqs = [s \in Slots |-> Idle]
    /\ nreq = 0
    /\ snap = EmptyStore
    /\ trail = NoTrail

Init ==
    ServerIdle /\ SearchIdle /\ AuthIdle /\ DetailIdle

\* ------------------------------------------------------------ middleware
\* middleware/auth.js protect: the caller presents a valid session identity.
protect(caller) ==
    IF caller \in Users THEN 0 ELSE 401

\* authorize answering 403 Forbidden to a caller whose role is not among roles.
authorizeForbidden(roles, caller) ==
    IF Role[caller] \in roles THEN 0 ELSE 403

\* middleware/auth.js authorize(...roles): the caller's role is one of roles.
authorize(roles, caller) ==
    IF Role[caller] \in roles THEN 0 ELSE 401

\* The chain [protect, authorize('admin')] of the admin routes: the status of
\* the first middleware that ends the request, 0 when the handler is reached.
protectAuthorizeAdmin(caller) ==
    IF protect(caller) # 0 THEN protect(caller) ELSE authorize({"admin"}, caller)

\* ------------------------------------------------------------ request steps
Busy == {s \in Slots : reqs[s].op # "idle"}

\* The handler has answered: its local documents are gone, the response stays
\* until it is sent.
Answered(r, status, data) ==
    [r EXCEPT !.pc = "done", !.status = status, !.data = data,
              !.post = NullPost, !.category = NullCategory]

Finish(s, status, data) ==
    reqs' = [reqs EXCEPT ![s] = Answered(@, status, data)]

Goto(s, pc) ==
    reqs' = [reqs EXCEPT ![s].pc = pc]

\* Ids a client can name: those handed out so far, and one naming nothing.
PostRefs == 0..(nextPost - 1)
CatRefs == 0..(nextCat - 1)

PostAt(id) == IF id \in Ids THEN posts[id] ELSE NullPost
CategoryAt(id) == IF id \in Ids THEN cats[id] ELSE NullCategory

\* Post.find({ category: id }) over a Post collection
PostsOfCategory(ps, id) ==
    {p \in Ids : ps[p].live /\ ps[p].category = id}

\* The trail once req has arrived, the requests one at a time: stage 1 is an
\* admin's post creation in a stored category with postCount 0 and no posts,
\* stage 2 the admin's deletion of that post right after it, stage 3 the
\* admin's deletion of the category right after that.
TrailAfter(req) ==
    IF Busy # {} THEN NoTrail
    ELSE IF /\ req.op = "createPost" /\ req.pc = "findCategory"
            /\ CategoryAt(req.body.category).live
            /\ CategoryAt(req.body.category).postCount = 0
            /\ PostsOfCategory(posts, req.body.category) = {}
         THEN [stage |-> 1, base |-> Store, cat |-> req.body.category]
    ELSE IF /\ trail.stage = 1
            /\ req.op = "deletePost" /\ req.pc = "findPost"
            /\ req.id = trail.base.nextPost /\ PostAt(req.id).live
         THEN [trail EXCEPT !.stage = 2]
    ELSE IF /\ trail.stage = 2
            /\ req.op = "deleteCategory" /\ req.pc = "findCategory"
            /\ req.id = trail.cat
         THEN [trail EXCEPT !.stage = 3]
    ELSE NoTrail

\* A request arrives, has passed through its route's middleware, and is given
\* the lowest free slot.
Arrive(limit, req) ==
    /\ nreq < MaxReqs
    /\ Cardinality(Busy) < limit
    /\ LET s == CHOOSE f \in Slots \ Busy : \A g \in Slots \ Busy : f <= g
       IN reqs' = [reqs EXCEPT ![s] = req]
    /\ nreq' = nreq + 1
    /\ snap' = IF Busy = {} THEN Store ELSE NoSnap
    /\ trail' = TrailAfter(req)
    /\ UNCHANGED <<store, elsewhere>>

\* The response is sent; the slot is free again.
Respond(s) ==
    /\ reqs[s].pc = "done"
    /\ reqs' = [reqs EXCEPT ![s] = Idle]
    /\ UNCHANGED <<store, nreq, snap, trail, elsewhere>>

\* ------------------------------------------------ POST /api/posts  (create)
CreatePostBodies ==
    {[NoBody EXCEPT !.category = c, !.author = a] :
        c \in {NoInt} \cup CatRefs, a \in {NoStr} \cup Users}

\* [protect, authorize('admin')], the validators, validationResult.
CreatePost_Middleware(r) ==
    LET gate == protectAuthorizeAdmin(r.caller)
    IN IF gate # 0 THEN Answered(r, gate, <<>>)
       ELSE IF r.body.category = NoInt THEN Answered(r, 400, <<>>)
       ELSE [r EXCEPT !.pc = "findCategory"]

\* A request for the route arrives and passes through the middleware.
CreatePost_Receive(limit) ==
    \E caller \in Callers, body \in CreatePostBodies :
        Arrive(limit, CreatePost_Middleware([Idle EXCEPT !.op = "createPost", 
                                   !.caller = caller, !.body = body]))

\* const category = await Category.findById(req.body.category)
CreatePost_FindCategory(s) ==
    /\ reqs[s].op = "createPost" /\ reqs[s].pc = "findCategory"
    /\ LET category == CategoryAt(reqs[s].body.category)
       IN IF ~category.live THEN Finish(s, 400, <<>>)
          ELSE reqs' = [reqs EXCEPT ![s].pc = "create", ![s].category = category]
    /\ UNCHANGED <<store, nreq, snap, trail, elsewhere>>

\* { author: req.user.id, ...req.body }: the body's author wins.
NewPostBodyAuthor(body, uid) ==
    [live |-> TRUE, author |-> IF body.author # NoStr THEN body.author ELSE uid,
     category |-> body.category, comments |-> <<>>]

\* { ...req.body, author: req.user.id }
NewPost(body, uid) ==
    [live |-> TRUE, author |-> uid, category |-> body.category, comments |-> <<>>]

\* const post = await Post.create({...})
CreatePost_Create(s) ==
    /\ reqs[s].op = "createPost" /\ reqs[s].pc = "create"
    /\ LET post == NewPost(reqs[s].body, reqs[s].caller)
       IN /\ posts' = [posts EXCEPT ![nextPost] = post]
          /\ reqs' = [reqs EXCEPT ![s].pc = "saveCategory", ![s].post = post,
                                  ![s].id = nextPost]
    /\ nextPost' = nextPost + 1
    /\ UNCHANGED <<cats, nextCat, nreq, snap, trail, elsewhere>>

\* category.postCount += 2
IncrementTwice(n) == n + 2

\* category.postCount += 1
Increment(n) == n + 1

\* category.save() writes the modified path of the loaded document; a document
\* that is no longer stored makes it throw (DocumentNotFoundError), which
\* next(err) turns into a 500.
CreatePost_SaveCategory(s) ==
    /\ reqs[s].op = "createPost" /\ reqs[s].pc = "saveCategory"
    /\ LET c == reqs[s].body.category
           n == Increment(reqs[s].category.postCount)
       IN IF cats[c].live
          THEN /\ cats' = [cats EXCEPT ![c].postCount = n]
               /\ Finish(s, 201, <<>>)
          ELSE /\ cats' = cats
               /\ Finish(s, 500, <<>>)
    /\ UNCHANGED <<posts, nextPost, nextCat, nreq, snap, trail, elsewhere>>

\* --------------------------------------------- PUT /api/posts/:id  (update)
\* The fields of a post a body can patch: req.body goes to findByIdAndUpdate
\* as it is.
UpdatePostBodies ==
    {[NoBody EXCEPT !.category = c] : c \in {NoInt} \cup CatRefs}
    \cup {[NoBody EXCEPT !.author = a] : a \in Users}
    \cup {[NoBody EXCEPT !.setComments = TRUE, !.comments = cs] : cs \in CommentPatches}

\* [protect, authorize('admin')]
UpdatePost_Middleware(r) ==
    LET gate == protectAuthorizeAdmin(r.caller)
    IN IF gate # 0 THEN Answered(r, gate, <<>>) ELSE [r EXCEPT !.pc = "findPost"]

\* A request for the route arrives and passes through the middleware.
UpdatePost_Receive(limit) ==
    \E caller \in Callers, id \in PostRefs, body \in UpdatePostBodies :
        Arrive(limit, UpdatePost_Middleware([Idle EXCEPT !.op = "updatePost", !.caller = caller,
                                   !.id = id, !.body = body]))

\* post.author.toString() !== req.user.id && req.user.role !== 'admin'
NotOwnerNorAdmin(post, caller) ==
    post.author # caller /\ Role[caller] # "admin"

\* let post = await Post.findById(req.params.id), and the ownership check
UpdatePost_FindPost(s) ==
    /\ reqs[s].op = "updatePost" /\ reqs[s].pc = "findPost"
    /\ LET post == PostAt(reqs[s].id)
       IN IF ~post.live THEN Finish(s, 404, <<>>)
          ELSE IF NotOwnerNorAdmin(post, reqs[s].caller) THEN Finish(s, 401, <<>>)
          ELSE reqs' = [reqs EXCEPT ![s].pc = "findByIdAndUpdate", ![s].post = post]
    /\ UNCHANGED <<store, nreq, snap, trail, elsewhere>>

\* The update findByIdAndUpdate makes of a post: every field the body carries
\* is set.
PatchPost(post, body) ==
    [post EXCEPT
        !.category = IF body.category # NoInt THEN body.category ELSE @,
        !.author = IF body.author # NoStr THEN body.author ELSE @,
        !.comments = IF body.setComments THEN body.comments ELSE @]

\* post = await Post.findByIdAndUpdate(req.params.id, req.body, {new: true, ...});
\* null when the post is stored no more, and the response is a 200 all the same.
UpdatePost_FindByIdAndUpdate(s) ==
    /\ reqs[s].op = "updatePost" /\ reqs[s].pc = "findByIdAndUpdate"
    /\ LET id == reqs[s].id
       IN IF posts[id].live
          THEN posts' = [posts EXCEPT ![id] = PatchPost(@, reqs[s].body)]
          ELSE posts' = posts
    /\ Finish(s, 200, <<>>)
    /\ UNCHANGED <<cats, nextPost, nextCat, nreq, snap, trail, elsewhere>>

\* ------------------------------------------ DELETE /api/posts/:id  (delete)
\* [protect, authorize('admin')]
DeletePost_Middleware(r) ==
    LET gate == protectAuthorizeAdmin(r.caller)
    IN IF gate # 0 THEN Answered(r, gate, <<>>) ELSE [r EXCEPT !.pc = "findPost"]

\* A request for the route arrives and passes through the middleware.
DeletePost_Receive(limit) ==
    \E caller \in Callers, id \in PostRefs :
        Arrive(limit, DeletePost_Middleware([Idle EXCEPT !.op = "deletePost", !.caller = caller,
                                   !.id = id]))

\* const post = await Post.findById(req.params.id), and the ownership check
DeletePost_FindPost(s) ==
    /\ reqs[s].op = "deletePost" /\ reqs[s].pc = "findPost"
    /\ LET post == PostAt(reqs[s].id)
       IN IF ~post.live THEN Finish(s, 404, <<>>)
          ELSE IF NotOwnerNorAdmin(post, reqs[s].caller) THEN Finish(s, 401, <<>>)
          ELSE reqs' = [reqs EXCEPT ![s].pc = "remove", ![s].post = post]
    /\ UNCHANGED <<store, nreq, snap, trail, elsewhere>>

\* await post.remove(): deletes the document with the post's _id, and does not
\* complain when there is none left.
DeletePost_Remove(s) ==
    /\ reqs[s].op = "deletePost" /\ reqs[s].pc = "remove"
    /\ posts' = [posts EXCEPT ![reqs[s].id] = NullPost]
    /\ Goto(s, "findCategory")
    /\ UNCHANGED <<cats, nextPost, nextCat, nreq, snap, trail, elsewhere>>

\* const category = await Category.findById(post.category)
DeletePost_FindCategory(s) ==
    /\ reqs[s].op = "deletePost" /\ reqs[s].pc = "findCategory"
    /\ LET category == CategoryAt(reqs[s].post.category)
       IN IF ~category.live THEN Finish(s, 200, <<>>)
          ELSE reqs' = [reqs EXCEPT ![s].pc = "saveCategory", ![s].category = category]
    /\ UNCHANGED <<store, nreq, snap, trail, elsewhere>>

\* category.postCount -= 1, without the clamp
DecrementUnclamped(n) ==
    n - 1

\* category.postCount -= 1; if (category.postCount < 0) category.postCount = 0
DecrementClamped(n) ==
    IF n - 1 < 0 THEN 0 ELSE n - 1

\* await category.save()
DeletePost_SaveCategory(s) ==
    /\ reqs[s].op = "deletePost" /\ reqs[s].pc = "saveCategory"
    /\ LET c == reqs[s].post.category
           n == DecrementClamped(reqs[s].category.postCount)
       IN IF cats[c].live
          THEN /\ cats' = [cats EXCEPT ![c].postCount = n]
               /\ Finish(s, 200, <<>>)
          ELSE /\ cats' = cats
               /\ Finish(s, 500, <<>>)
    /\ UNCHANGED <<posts, nextPost, nextCat, nreq, snap, trail, elsewhere>>

\* -------------------------------- POST /api/posts/:id/comments  (add comment)
\* [protect], body('content').notEmpty(), validationResult
AddComment_Middleware(r) ==
    LET gate == protect(r.caller)
    IN IF gate # 0 THEN Answered(r, gate, <<>>)
       ELSE IF r.body.content = NoStr THEN Answered(r, 400, <<>>)
       ELSE [r EXCEPT !.pc = "findPost"]

\* A request for the route arrives and passes through the middleware.
AddComment_Receive(limit) ==
    \E caller \in Callers, id \in PostRefs, content \in {NoStr} \cup Contents :
        Arrive(limit, AddComment_Middleware([Idle EXCEPT !.op = "addComment", !.caller = caller,
                                   !.id = id, !.body = [NoBody EXCEPT !.content = content]]))

\* const post = await Post.findById(req.params.id)
AddComment_FindPost(s) ==
    /\ reqs[s].op = "addComment" /\ reqs[s].pc = "findPost"
    /\ LET post == PostAt(reqs[s].id)
       IN IF ~post.live THEN Finish(s, 404, <<>>)
          ELSE reqs' = [reqs EXCEPT ![s].pc = "save", ![s].post = post]
    /\ UNCHANGED <<store, nreq, snap, trail, elsewhere>>

\* post.comments.push({content: req.body.content, user: req.user.id})
Push(comments, body, uid) ==
    Append(comments, Comment(body.content, uid))

\* await post.save(): a push on a document array is saved as an atomic $push
\* onto the stored array; a post that is stored no more makes save throw.
AddComment_Save(s) ==
    /\ reqs[s].op = "addComment" /\ reqs[s].pc = "save"
    /\ LET id == reqs[s].id
       IN IF posts[id].live
          THEN /\ posts' = [posts EXCEPT
                              ![id].comments = Push(@, reqs[s].body, reqs[s].caller)]
               /\ Goto(s, "reload")
          ELSE /\ posts' = posts
               /\ Finish(s, 500, <<>>)
    /\ UNCHANGED <<cats, nextPost, nextCat, nreq, snap, trail, elsewhere>>

\* populatedPost.comments[populatedPost.comments.length - 1]
LastComment(post) ==
    IF post.comments = <<>> THEN <<>> ELSE <<post.comments[Len(post.comments)]>>

\* const populatedPost = await Post.findById(post._id).populate(...); reading
\* .comments of null throws, and next(err) answers 500.
AddComment_Reload(s) ==
    /\ reqs[s].op = "addComment" /\ reqs[s].pc = "reload"
    /\ LET populatedPost == PostAt(reqs[s].id)
       IN IF populatedPost.live
          THEN Finish(s, 201, LastComment(populatedPost))
          ELSE Finish(s, 500, <<>>)
    /\ UNCHANGED <<store, nreq, snap, trail, elsewhere>>

\* ------------------------------------------- POST /api/categories  (create)
CategoryBodies ==
    {[NoBody EXCEPT !.postCount = n, !.name = named] :
        n \in {NoInt} \cup (0..MaxCount), named \in BOOLEAN}

\* [protect, authorize('admin')], body('name').notEmpty(), validationResult
CreateCategory_Middleware(r) ==
    LET gate == protectAuthorizeAdmin(r.caller)
    IN IF gate # 0 THEN Answered(r, gate, <<>>)
       ELSE IF ~r.body.name THEN Answered(r, 400, <<>>)
       ELSE [r EXCEPT !.pc = "create"]

\* A request for the route arrives and passes through the middleware.
CreateCategory_Receive(limit) ==
    \E caller \in Callers, body \in CategoryBodies :
        Arrive(limit, CreateCategory_Middleware([Idle EXCEPT !.op = "createCategory", 
                                   !.caller = caller, !.body = body]))

\* The document Category.create(req.body) stores: postCount is the body's, and
\* the schema's default 0 without one.
NewCategory(body) ==
    [live |-> TRUE, postCount |-> IF body.postCount # NoInt THEN body.postCount ELSE 0]

\* const category = await Category.create(req.body)
CreateCategory_Create(s) ==
    /\ reqs[s].op = "createCategory" /\ reqs[s].pc = "create"
    /\ cats' = [cats EXCEPT ![nextCat] = NewCategory(reqs[s].body)]
    /\ nextCat' = nextCat + 1
    /\ reqs' = [reqs EXCEPT ![s].pc = "done", ![s].status = 201, ![s].id = nextCat]
    /\ UNCHANGED <<posts, nextPost, nreq, snap, trail, elsewhere>>

\* ------------------------------------------ PUT /api/categories/:id  (update)
\* The fields of a category a body can patch.
UpdateCategoryBodies ==
    {[NoBody EXCEPT !.postCount = n] : n \in {NoInt} \cup (0..MaxCount)}

\* [protect, authorize('admin')]
UpdateCategory_Middleware(r) ==
    LET gate == protectAuthorizeAdmin(r.caller)
    IN IF gate # 0 THEN Answered(r, gate, <<>>) ELSE [r EXCEPT !.pc = "findByIdAndUpdate"]

\* A request for the route arrives and passes through the middleware.
UpdateCategory_Receive(limit) ==
    \E caller \in Callers, id \in CatRefs, body \in UpdateCategoryBodies :
        Arrive(limit, UpdateCategory_Middleware([Idle EXCEPT !.op = "updateCategory", 
                                   !.caller = caller, !.id = id, !.body = body]))

PatchCategory(category, body) ==
    [category EXCEPT !.postCount = IF body.postCount # NoInt THEN body.postCount ELSE @]

\* const category = await Category.findByIdAndUpdate(req.params.id, req.body, ...)
UpdateCategory_FindByIdAndUpdate(s) ==
    /\ reqs[s].op = "updateCategory" /\ reqs[s].pc = "findByIdAndUpdate"
    /\ LET id == reqs[s].id
       IN IF CategoryAt(id).live
          THEN /\ cats' = [cats EXCEPT ![id] = PatchCategory(@, reqs[s].body)]
               /\ Finish(s, 200, <<>>)
          ELSE /\ cats' = cats
               /\ Finish(s, 404, <<>>)
    /\ UNCHANGED <<posts, nextPost, nextCat, nreq, snap, trail, elsewhere>>

\* --------------------------------------- DELETE /api/categories/:id  (delete)
\* [protect, authorize('admin')]
DeleteCategory_Middleware(r) ==
    LET gate == protectAuthorizeAdmin(r.caller)
    IN IF gate # 0 THEN Answered(r, gate, <<>>) ELSE [r EXCEPT !.pc = "findCategory"]

\* A request for the route arrives and passes through the middleware.
DeleteCategory_Receive(limit) ==
    \E caller \in Callers, id \in CatRefs :
        Arrive(limit, DeleteCategory_Middleware([Idle EXCEPT !.op = "deleteCategory", 
                                   !.caller = caller, !.id = id]))

\* const category = await Category.findById(req.params.id)
DeleteCategory_FindCategory(s) ==
    /\ reqs[s].op = "deleteCategory" /\ reqs[s].pc = "findCategory"
    /\ LET category == CategoryAt(reqs[s].id)
       IN IF ~category.live THEN Finish(s, 404, <<>>)
          ELSE reqs' = [reqs EXCEPT ![s].pc = "findPosts", ![s].category = category]
    /\ UNCHANGED <<store, nreq, snap, trail, elsewhere>>

\* category.postCount > 0 in place of posts.length > 0
HasPostsByCount(ps, category, id) ==
    category.postCount > 0

\* posts.length > 0
HasPosts(ps, category, id) ==
    Cardinality(PostsOfCategory(ps, id)) > 0

\* const posts = await Post.find({ category: req.params.id })
DeleteCategory_FindPosts(s) ==
    /\ reqs[s].op = "deleteCategory" /\ reqs[s].pc = "findPosts"
    /\ IF HasPosts(posts, reqs[s].category, reqs[s].id)
       THEN Finish(s, 400, <<>>)
       ELSE Goto(s, "remove")
    /\ UNCHANGED <<store, nreq, snap, trail, elsewhere>>

\* await category.remove()
DeleteCategory_Remove(s) ==
    /\ reqs[s].op = "deleteCategory" /\ reqs[s].pc = "remove"
    /\ cats' = [cats EXCEPT ![reqs[s].id] = NullCategory]
    /\ Finish(s, 200, <<>>)
    /\ UNCHANGED <<posts, nextPost, nextCat, nreq, snap, trail, elsewhere>>

\* ------------------------------------------------------------------- system
Step(limit) ==
    \/ CreatePost_Receive(limit)
    \/ UpdatePost_Receive(limit)
    \/ DeletePost_Receive(limit)
    \/ AddComment_Receive(limit)
    \/ CreateCategory_Receive(limit)
    \/ UpdateCategory_Receive(limit)
    \/ DeleteCategory_Receive(limit)
    \/ \E s \in Slots :
        \/ CreatePost_FindCategory(s)
        \/ CreatePost_Create(s)
        \/ CreatePost_SaveCategory(s)
        \/ UpdatePost_FindPost(s)
        \/ UpdatePost_FindByIdAndUpdate(s)
        \/ DeletePost_FindPost(s)
        \/ DeletePost_Remove(s)
        \/ DeletePost_FindCategory(s)
        \/ DeletePost_SaveCategory(s)
        \/ AddComment_FindPost(s)
        \/ AddComment_Save(s)
        \/ AddComment_Reload(s)
        \/ CreateCategory_Create(s)
        \/ UpdateCategory_FindByIdAndUpdate(s)
        \/ DeleteCategory_FindCategory(s)
        \/ DeleteCategory_FindPosts(s)
        \/ DeleteCategory_Remove(s)
        \/ Respond(s)

Next == Step(MaxInFlight)
Spec == Init /\ [][Next]_vars

\* One request at a time: a request arrives only when none is being handled.
SeqNext == Step(1)
SeqSpec == Init /\ [][SeqNext]_vars

\* Concurrent requests that patch no field: categories are created with the
\* default postCount, posts are created and deleted, comments are added.
NoPatchNext ==
    \/ CreateCategory_Receive(MaxInFlight) /\ \A s \in Slots : reqs'[s].body.postCount = NoInt
    \/ CreatePost_Receive(MaxInFlight)
    \/ DeletePost_Receive(MaxInFlight)
    \/ AddComment_Receive(MaxInFlight)
    \/ \E s \in Slots :
        \/ CreateCategory_Create(s)
        \/ CreatePost_FindCategory(s)
        \/ CreatePost_Create(s)
        \/ CreatePost_SaveCategory(s)
        \/ DeletePost_FindPost(s)
        \/ DeletePost_Remove(s)
        \/ DeletePost_FindCategory(s)
        \/ DeletePost_SaveCategory(s)
        \/ AddComment_FindPost(s)
        \/ AddComment_Save(s)
        \/ AddComment_Reload(s)
        \/ Respond(s)
NoPatchSpec == Init /\ [][NoPatchNext]_vars

\* ------------------------------------------------------------------- claims
Done(s, ops) == reqs[s].op \in ops /\ reqs[s].pc = "done"
IsAdmin(caller) == caller \in Users /\ Role[caller] = "admin"
IsPrefix(a, b) == Len(a) <= Len(b) /\ SubSeq(b, 1, Len(a)) = a
CountsMatch ==
    \A c \in Ids : cats[c].live => cats[c].postCount = Cardinality(PostsOfCategory(posts, c))

\* C1: whenever no request is in progress, every category's postCount is the
\* number of stored posts that reference it, after any sequence of operations
\* run one at a time.
C1_PostCountIsNumberOfPosts ==
    Busy = {} => CountsMatch

\* C2: once concurrent post-create and post-delete requests on a category have
\* all completed, its postCount is the number of stored posts that reference it.
C2_PostCountAfterConcurrentCreatesAndDeletes ==
    (Busy = {} /\ nreq > 0) => CountsMatch

\* C3: a post creation answered 201 has raised the postCount of the body's
\* category by exactly 1, stored exactly one new post, whose author is the
\* caller and not the body's author, and changed no other category and no
\* other post.
C3_CreatePostEffect ==
    \A s \in Slots : (Done(s, {"createPost"}) /\ reqs[s].status = 201) =>
        LET r == reqs[s]
            c == r.body.category
            p == snap.nextPost
        IN /\ IsAdmin(r.caller)
           /\ c \in Ids /\ snap.cats[c].live
           /\ cats = [snap.cats EXCEPT ![c].postCount = @ + 1]
           /\ ~snap.posts[p].live
           /\ posts[p].live /\ posts[p].author = r.caller /\ posts[p].category = c
           /\ \A q \in Ids \ {p} : posts[q] = snap.posts[q]
           /\ r.id = p

C3_Witness ==
    \E s \in Slots :
        /\ Done(s, {"createPost"}) /\ reqs[s].status = 201
        /\ reqs[s].body.author \notin {NoStr, reqs[s].caller}
        /\ \E c \in Ids \ {reqs[s].body.category} : cats[c].live /\ cats[c].postCount > 0

\* C4: a post deletion answered 200 has removed the post and lowered the
\* postCount of the category the post referenced by 1, a postCount of 0
\* staying 0; no postCount is negative; when that category is stored no more,
\* an admin's deletion is still answered 200 and no category has changed.
C4_DeletePostEffect ==
    \A s \in Slots : Done(s, {"deletePost"}) =>
        LET r == reqs[s]
            old == IF r.id \in Ids THEN snap.posts[r.id] ELSE NullPost
            c == old.category
            stored == c \in Ids /\ snap.cats[c].live
        IN /\ (old.live /\ IsAdmin(r.caller)) => r.status = 200
           /\ r.status = 200 =>
                /\ old.live
                /\ posts = [snap.posts EXCEPT ![r.id] = NullPost]
                /\ IF stored
                   THEN cats = [snap.cats EXCEPT
                                  ![c].postCount = IF @ = 0 THEN 0 ELSE @ - 1]
                   ELSE cats = snap.cats
                /\ \A k \in Ids : cats[k].postCount >= 0

C4_Witness ==
    \E s \in Slots :
        /\ Done(s, {"deletePost"}) /\ reqs[s].status = 200
        /\ LET c == snap.posts[reqs[s].id].category
           IN c \in Ids /\ snap.cats[c].live /\ snap.cats[c].postCount = 0

\* C5: an admin's deletion of a stored category that a stored post references
\* is answered 400 and changes nothing, whatever the category's postCount; with
\* no post referencing it the category is deleted, whatever its postCount.
C5_DeleteCategoryChecksPosts ==
    \A s \in Slots :
        (Done(s, {"deleteCategory"}) /\ IsAdmin(reqs[s].caller)
            /\ reqs[s].id \in Ids /\ snap.cats[reqs[s].id].live) =>
        LET r == reqs[s]
        IN IF PostsOfCategory(snap.posts, r.id) # {}
           THEN r.status = 400 /\ Store = snap
           ELSE /\ r.status = 200
                /\ cats = [snap.cats EXCEPT ![r.id] = NullCategory]
                /\ posts = snap.posts

C5_Witness ==
    \E s \in Slots :
        /\ Done(s, {"deleteCategory"}) /\ reqs[s].status = 400
        /\ PostsOfCategory(snap.posts, reqs[s].id) # {}
        /\ snap.cats[reqs[s].id].postCount = 0

\* C6: every stored post's category field references a stored category.
C6_PostCategoryIsStored ==
    \A p \in Ids : posts[p].live => CategoryAt(posts[p].category).live

\* C7: an update or delete of a stored post by an authenticated caller who is
\* neither its author nor an admin is answered 401 and changes no post, no
\* comment and no postCount.
C7_StrangerIsRefused ==
    \A s \in Slots :
        (/\ Done(s, {"updatePost", "deletePost"})
         /\ reqs[s].caller \in Users
         /\ reqs[s].id \in Ids /\ snap.posts[reqs[s].id].live
         /\ snap.posts[reqs[s].id].author # reqs[s].caller
         /\ ~IsAdmin(reqs[s].caller)) =>
        (reqs[s].status = 401 /\ Store = snap)

C7_Witness ==
    \E s \in Slots :
        /\ Done(s, {"updatePost", "deletePost"}) /\ reqs[s].status = 401
        /\ reqs[s].caller \in Users /\ ~IsAdmin(reqs[s].caller)
        /\ reqs[s].id \in Ids /\ posts[reqs[s].id].live
        /\ posts[reqs[s].id].author # reqs[s].caller
        /\ posts[reqs[s].id].comments # <<>>

\* C8: an update or delete of a stored post by its author, whatever the
\* author's role, or by an admin, is answered 200.
C8_AuthorOrAdminSucceeds ==
    \A s \in Slots :
        (/\ Done(s, {"updatePost", "deletePost"})
         /\ reqs[s].caller \in Users
         /\ reqs[s].id \in Ids /\ snap.posts[reqs[s].id].live
         /\ (snap.posts[reqs[s].id].author = reqs[s].caller \/ IsAdmin(reqs[s].caller))) =>
        reqs[s].status = 200

\* C9: the comment an add-comment request answered 201 returns is the one
\* the request appended: its content is the body's, its user the caller.
C9_AddCommentReturnsItsComment ==
    \A s \in Slots : (Done(s, {"addComment"}) /\ reqs[s].status = 201) =>
        reqs[s].data = <<Comment(reqs[s].body.content, reqs[s].caller)>>

\* C10: while a post is stored, each step leaves its comment sequence a prefix
\* of the comment sequence after the step.
C10_CommentsAppendOnly ==
    [][\A p \in Ids : (posts[p].live /\ posts'[p].live) =>
            IsPrefix(posts[p].comments, posts'[p].comments)]_vars

\* C12: an admin's post creation whose category id names no stored category
\* is answered 404, stores no post and changes no postCount.
C12_UnknownCategoryIsNotFound ==
    \A s \in Slots :
        (/\ Done(s, {"createPost"}) /\ IsAdmin(reqs[s].caller)
         /\ reqs[s].body.category # NoInt
         /\ ~(reqs[s].body.category \in Ids /\ snap.cats[reqs[s].body.category].live)) =>
        (reqs[s].status = 404 /\ Store = snap)

\* C13: with the requests one at a time, an admin's post creation in a stored
\* category with postCount 0 and no posts is answered 201 and leaves postCount
\* 1; the deletion of that post right after it is answered 200 and brings the
\* categories and the posts back to what they were before the creation,
\* postCount 0; the deletion of the category right after that is answered 200
\* and removes the category.
C13_CreateDeleteRoundTrip ==
    \A s \in Slots : reqs[s].pc = "done" =>
        /\ trail.stage = 1 =>
            /\ reqs[s].status = 201
            /\ cats[trail.cat].postCount = 1
        /\ trail.stage = 2 =>
            /\ reqs[s].status = 200
            /\ cats[trail.cat].postCount = 0
            /\ posts = trail.base.posts
            /\ cats = trail.base.cats
        /\ trail.stage = 3 =>
            /\ reqs[s].status = 200
            /\ cats = [trail.base.cats EXCEPT ![trail.cat] = NullCategory]
            /\ posts = trail.base.posts

C13_Witness ==
    \E s \in Slots : reqs[s].pc = "done" /\ reqs[s].status = 200 /\ trail.stage = 3

\* ------------------------------------------------- GET /api/posts routes
\* Texts are sequences of characters, so that a match can look inside them.
Chars == {"a", "A", "b"}
Texts == {<<>>} \cup {<<c>> : c \in Chars} \cup {<<c, d>> : c \in Chars, d \in Chars}
\* The documents of the collection a search reads: title, content, tags.
LibraryDocs ==
    {NullDoc} \cup
    [live : {TRUE}, title : Texts, content : {<<>>, <<"b", "a">>},
     tags : {<<>>, << <<"A">> >>}]
\* req.query.q; the empty text is a request without q
Queries == {<<>>, <<"a">>, <<"A", "b">>, <<"b", "b">>}
\* Request paths under /api/posts, as their segments.
Paths ==
    {<<>>, <<"search">>, <<"search", "id1">>} \cup {<<d>> : d \in ObjectIds}

\* The GET routes of the router, in the order router.get registers them.
Params == {":id"}
GetRoutes ==
    << [name |-> "getPosts", pattern |-> <<>>],
       [name |-> "getPost", pattern |-> <<":id">>],
       [name |-> "searchPosts", pattern |-> <<"search">>] >>

\* A route's path pattern matches a request path: the same number of
\* segments, each a parameter or the very segment.
Match(pattern, path) ==
    /\ Len(pattern) = Len(path)
    /\ \A i \in 1..Len(pattern) : pattern[i] \in Params \/ pattern[i] = path[i]

\* The router hands the request to the first registered route that matches;
\* 0 when none does.
Dispatch(path) ==
    LET hits == {i \in 1..Len(GetRoutes) : Match(GetRoutes[i].pattern, path)}
    IN  IF hits = {} THEN 0 ELSE CHOOSE i \in hits : \A j \in hits : i <= j

\* the 'i' option of the regular expression
ToLower(c) == IF c = "A" THEN "a" ELSE c

\* $regex: q, $options: 'i' on a text: q occurs in it, letter case aside
Contains(text, q) ==
    \E i \in 0..(Len(text) - Len(q)) :
        \A j \in 1..Len(q) : ToLower(text[i + j]) = ToLower(q[j])

\* the $or of the search: title, content, or some tag
Matches(doc, q) ==
    \/ Contains(doc.title, q)
    \/ Contains(doc.content, q)
    \/ \E k \in 1..Len(doc.tags) : Contains(doc.tags[k], q)

\* Post.find() over the collection
AllPosts == {d \in ObjectIds : library[d].live}

\* Post.find({ $or: [...] }) over the collection
SearchPosts(q) == {d \in ObjectIds : library[d].live /\ Matches(library[d], q)}

\* The collection a run starts with.
SearchInit ==
    /\ ServerIdle /\ AuthIdle /\ DetailIdle
    /\ library \in [ObjectIds -> LibraryDocs]
    /\ getReq = NoGet

\* A GET request arrives and the router dispatches it.
Get_Receive ==
    /\ getReq.pc \in {"idle", "done"}
    /\ \E path \in Paths, q \in Queries :
           getReq' = [NoGet EXCEPT !.pc = "handle", !.path = path, !.q = q,
                                   !.route = Dispatch(path)]
    /\ UNCHANGED <<library, serverVars, authVars, detailVars>>

GetAnswer(status, data) ==
    getReq' = [getReq EXCEPT !.pc = "done", !.status = status, !.data = data]

\* The handler of the dispatched route runs. findById casts its argument to an
\* ObjectId; for a segment that is none it throws, and next(err) answers 500.
Get_Handle ==
    /\ getReq.pc = "handle"
    /\ CASE getReq.route = 0 -> GetAnswer(404, {})
         [] getReq.route = 1 -> GetAnswer(200, AllPosts)
         [] getReq.route = 2 ->
                LET id == getReq.path[1]
                IN  IF id \notin ObjectIds THEN GetAnswer(500, {})
                    ELSE IF ~library[id].live THEN GetAnswer(404, {})
                    ELSE GetAnswer(200, {id})
         [] getReq.route = 3 ->
                IF getReq.q = <<>> THEN GetAnswer(400, {})
                ELSE GetAnswer(200, SearchPosts(getReq.q))
    /\ UNCHANGED <<library, serverVars, authVars, detailVars>>

SearchNext == Get_Receive \/ Get_Handle
SearchSpec == SearchInit /\ [][SearchNext]_vars

\* C11: a GET of /search with a non-empty q is handled by the search route
\* and answered 200 with exactly the stored posts whose title, content or
\* some tag contains q, letter case aside.
C11_SearchIsHandledBySearch ==
    (/\ getReq.pc = "done"
     /\ getReq.path = <<"search">>
     /\ getReq.q # <<>>) =>
        /\ GetRoutes[getReq.route].name = "searchPosts"
        /\ getReq.status = 200
        /\ getReq.data = SearchPosts(getReq.q)

\* ---------------------------------------------------------- AuthProvider
\* error.response?.data?.error || error.message || 'Login failed'
LoginFailed == "Login failed"
\* error.response?.data?.error || error.message || 'Registration failed'
RegistrationFailed == "Registration failed"

Event(type, payload) == [type |-> type, payload |-> payload]

\* const authReducer = (state, action) => { switch (action.type) ... }
authReducer(state, action) ==
    CASE action.type = "LOGIN_START" ->
             [state EXCEPT !.loading = TRUE]
      [] action.type = "LOGIN_SUCCESS" ->
             [state EXCEPT !.loading = FALSE, !.isAuthenticated = TRUE,
                           !.user = action.payload]
      [] action.type = "LOGIN_FAIL" ->
             [state EXCEPT !.loading = FALSE, !.isAuthenticated = FALSE,
                           !.user = NoUser, !.error = action.payload]
      [] action.type = "LOGOUT" ->
             [state EXCEPT !.loading = FALSE, !.isAuthenticated = FALSE,
                           !.user = NoUser]
      [] action.type = "CLEAR_ERROR" ->
             [state EXCEPT !.error = NoError]
      [] OTHER -> state

dispatch(action) == session' = authReducer(session, action)

\* A page load: the provider is constructed, authService may hold a user from
\* an earlier visit.
AuthInit ==
    /\ ServerIdle /\ SearchIdle /\ DetailIdle
    /\ session = InitialSession
    /\ calls = [c \in CallSlots |-> NoCall]
    /\ persisted \in Users \cup {NoUser}
    /\ mounted = FALSE
    /\ loggedOut = FALSE

\* useEffect(() => { const user = authService.getCurrentUser(); if (user) dispatch(LOGIN_SUCCESS) }, [])
AuthProvider_Mount ==
    /\ ~mounted
    /\ mounted' = TRUE
    /\ IF persisted # NoUser
          THEN dispatch(Event("LOGIN_SUCCESS", persisted))
          ELSE UNCHANGED session
    /\ UNCHANGED <<calls, persisted, loggedOut, serverVars, searchVars, detailVars>>

\* login and register up to their await: dispatch LOGIN_START, send the request.
Call_Start(kind) ==
    /\ mounted
    /\ \E c \in CallSlots, u \in Users :
           /\ calls[c] = NoCall
           /\ \A b \in CallSlots : b < c => calls[b] # NoCall
           /\ calls' = [calls EXCEPT ![c] = [kind |-> kind, user |-> u, stale |-> FALSE]]
    /\ dispatch(Event("LOGIN_START", NoUser))
    /\ UNCHANGED <<persisted, mounted, loggedOut, serverVars, searchVars, detailVars>>

\* The awaited request of call c succeeds: authService keeps the user, and
\* the call dispatches LOGIN_SUCCESS with data.user.
Call_Resolve(kind, c) ==
    /\ calls[c].kind = kind
    /\ dispatch(Event("LOGIN_SUCCESS", calls[c].user))
    /\ persisted' = calls[c].user
    /\ loggedOut' = (loggedOut /\ calls[c].stale)
    /\ calls' = [calls EXCEPT ![c] = NoCall]
    /\ UNCHANGED <<mounted, serverVars, searchVars, detailVars>>

\* The awaited request of call c fails: the catch dispatches LOGIN_FAIL.
Call_Reject(kind, c, errorMessage) ==
    /\ calls[c].kind = kind
    /\ dispatch(Event("LOGIN_FAIL", errorMessage))
    /\ calls' = [calls EXCEPT ![c] = NoCall]
    /\ UNCHANGED <<persisted, mounted, loggedOut, serverVars, searchVars, detailVars>>

login_Start == Call_Start("login")
login_Resolve == \E c \in CallSlots : Call_Resolve("login", c)
login_Reject == \E c \in CallSlots : Call_Reject("login", c, LoginFailed)

register_Start == Call_Start("register")
register_Resolve == \E c \in CallSlots : Call_Resolve("register", c)
register_Reject == \E c \in CallSlots : Call_Reject("register", c, RegistrationFailed)

\* const logout = () => { authService.logout(); dispatch({ type: 'LOGOUT' }) }
logout ==
    /\ mounted
    /\ persisted' = NoUser
    /\ dispatch(Event("LOGOUT", NoUser))
    /\ loggedOut' = TRUE
    /\ calls' = [c \in CallSlots |->
                    IF calls[c] = NoCall THEN NoCall ELSE [calls[c] EXCEPT !.stale = TRUE]]
    /\ UNCHANGED <<mounted, serverVars, searchVars, detailVars>>

\* const clearError = () => { dispatch({ type: 'CLEAR_ERROR' }) }
clearError ==
    /\ mounted
    /\ dispatch(Event("CLEAR_ERROR", NoUser))
    /\ UNCHANGED <<calls, persisted, mounted, loggedOut, serverVars, searchVars, detailVars>>

AuthNext ==
    \/ AuthProvider_Mount
    \/ login_Start
    \/ login_Resolve
    \/ login_Reject
    \/ register_Start
    \/ register_Resolve
    \/ register_Reject
    \/ logout
    \/ clearError
AuthSpec == AuthInit /\ [][AuthNext]_vars

\* C14: the session is in at most one of authenticating (loading),
\* authenticated (isAuthenticated) and error (error is not null), and an event
\* of a type the reducer does not name leaves the session as it is.
C14_SessionIsInOneState ==
    /\ Cardinality({f \in {"loading", "isAuthenticated", "error"} :
                       \/ f = "loading" /\ session.loading
                       \/ f = "isAuthenticated" /\ session.isAuthenticated
                       \/ f = "error" /\ session.error # NoError}) <= 1
    /\ authReducer(session, Event("REFRESH", NoUser)) = session

\* C15: once logout() has run, and until a login or register call started
\* after it succeeds, the session is unauthenticated: isAuthenticated is
\* false and user is null.
C15_LogoutHolds ==
    loggedOut => (~session.isAuthenticated /\ session.user = NoUser)

\* ------------------------------------------------------------ PostDetail
\* err.response?.data?.error || err.message || 'An error occurred'
PostNotFound == "Post not found"

\* What postService.getPost(id) resolves to: the post is told by its id.
Response(id) == [data |-> [success |-> TRUE, data |-> id]]

Pending == {i \in 1..Len(fetches) : fetches[i].pc = "pending"}

\* The view is rendered for route id: the effect runs fetchPost, and request
\* runs up to its await: setLoading(true), setError(null), apiCall().
fetchPost ==
    /\ Len(fetches) < MaxFetches
    /\ \E id \in ObjectIds :
           /\ id # detail.id
           /\ detail' = [detail EXCEPT !.id = id, !.loading = TRUE, !.error = NoError]
           /\ fetches' = Append(fetches, [id |-> id, pc |-> "pending"])
    /\ UNCHANGED <<serverVars, searchVars, authVars>>

\* The awaited apiCall of fetch i resolves: setLoading(false), request returns
\* response.data, and fetchPost runs setPost(data.data).
request_Resolve ==
    \E i \in Pending :
        /\ LET response == Response(fetches[i].id)
               data == response.data
           IN  detail' = [detail EXCEPT !.loading = FALSE, !.post = data.data]
        /\ fetches' = [fetches EXCEPT ![i].pc = "ok"]
        /\ UNCHANGED <<serverVars, searchVars, authVars>>

\* The awaited apiCall of fetch i rejects: setLoading(false), setError(errorMessage).
request_Reject ==
    \E i \in Pending :
        /\ detail' = [detail EXCEPT !.loading = FALSE, !.error = PostNotFound]
        /\ fetches' = [fetches EXCEPT ![i].pc = "failed"]
        /\ UNCHANGED <<serverVars, searchVars, authVars>>

DetailNext == fetchPost \/ request_Resolve \/ request_Reject
DetailSpec == Init /\ [][DetailNext]_vars

\* C16: loading is true whenever a fetch is still in flight; and once every
\* fetch has completed, the fetch for the current route id decides what is
\* shown: if it succeeded, the post is the one with that id and error is
\* null; if it failed, error is not null.
C16_DetailFollowsCurrentId ==
    /\ Pending # {} => detail.loading
    /\ (fetches # <<>> /\ Pending = {}) =>
           LET last == fetches[Len(fetches)]
           IN  /\ last.pc = "ok" => (detail.post = detail.id /\ detail.error = NoError)
               /\ last.pc = "failed" => detail.error # NoError
====
